---- MODULE Spec2Model ----
(***************************************************************************)
(* Model of src/app.py: the Table-of-Specifications allocator              *)
(* (generate_tos), the quiz item materializer (generate_quiz_items) and    *)
(* the Streamlit "Generate" handler that stores their results in           *)
(* st.session_state.                                                       *)
(*                                                                         *)
(* Two specifications:                                                     *)
(*   Spec    the two core functions applied to inputs drawn from bounded   *)
(*           sets (also inputs the UI never produces: empty lists,         *)
(*           totals below 1, hand-built frames);                           *)
(*   SpecUI  the Streamlit script: form edits and presses of the           *)
(*           Generate button.                                              *)
(***************************************************************************)
EXTENDS Integers, Sequences, FiniteSets

VARIABLES
    pc,             \* Spec: position of the calling harness
    competencies,   \* list of competencies (argument / list built at 306-327)
    total_items,    \* requested total (argument / slider value)
    tos_df,         \* Spec: the DataFrame returned by generate_tos or hand-built
    tos_locals,     \* Spec: generate_tos's locals at return (counts, per-competency shares)
    quiz_items,     \* Spec: the list returned by generate_quiz_items
    raised,         \* Spec: the exception the latest call raised, "" if none
    use_sample,     \* UI: the "Use sample MELCs" checkbox
    db_options,     \* UI: options of the MELC_DATABASE entry selected, 0 if none
    selected,       \* UI: the multiselect's chosen options, in order
    raw,            \* UI: the text area's lines
    session_state,  \* UI: st.session_state, a function from its keys
    button,         \* UI: what st.button returned in the latest script run
    error_shown,    \* UI: st.error was shown by the latest script run
    core_calls      \* UI: core functions called by the latest script run, in order

vars == <<pc, competencies, total_items, tos_df, tos_locals, quiz_items, raised,
          use_sample, db_options, selected, raw, session_state,
          button, error_shown, core_calls>>

coreVars == <<pc, tos_df, tos_locals, quiz_items, raised>>
uiVars == <<use_sample, db_options, selected, raw, session_state,
            button, error_shown, core_calls>>

(***************************************************************************)
(* Bounds of the model                                                     *)
(***************************************************************************)
MaxTotal == 50          \* largest total_items passed to generate_tos
NegTotals == 2          \* totals down to -NegTotals are passed too
MaxComps == 7           \* longest list of pairwise distinct competencies
NumDupCodes == 2        \* competencies used in the lists that may repeat one
MaxDupLen == 3          \* longest list that may repeat a competency
MaxFrameRows == 2       \* longest hand-built frame given to generate_quiz_items
MaxRawLines == 1        \* most lines typed into the text area

(***************************************************************************)
(* Static tables                                                           *)
(***************************************************************************)
\* The keys of BLOOM_DISTRIBUTION in insertion order (dict iteration order).
Levels == <<"Remembering", "Understanding", "Applying", "Analyzing",
            "Evaluating", "Creating">>

LevelSet == {Levels[i] : i \in 1..Len(Levels)}

\* The weights are the floats 0.20 .. 0.10; they are kept as hundredths.
\* round(w * t) on the floats equals round-half-even of the exact quotient
\* for every t in -50..300 (checked against CPython).
WeightDenominator == 100

BLOOM_DISTRIBUTION ==
    [Remembering |-> 20, Understanding |-> 20, Applying |-> 25,
     Analyzing |-> 15, Evaluating |-> 10, Creating |-> 10]

\* BLOOM_VERBS[level][0].capitalize()
BLOOM_VERBS ==
    [Remembering |-> "Define", Understanding |-> "Explain", Applying |-> "Solve",
     Analyzing |-> "Compare", Evaluating |-> "Justify", Creating |-> "Design"]

DefaultTotalItems == 30

(***************************************************************************)
(* Python arithmetic                                                       *)
(***************************************************************************)
\* round(num / den) for den > 0: round half to even.
RoundHalfEven(num, den) ==
    LET fl == num \div den
        r  == num % den
    IN  IF 2 * r > den THEN fl + 1
        ELSE IF 2 * r < den THEN fl
        ELSE IF fl % 2 = 0 THEN fl ELSE fl + 1

\* round(num / den) for den # 0 of either sign.
PyRound(num, den) ==
    IF den > 0 THEN RoundHalfEven(num, den) ELSE RoundHalfEven(0 - num, 0 - den)

\* sum(d.values()) over the six levels.
SumValues(d) ==
    d["Remembering"] + d["Understanding"] + d["Applying"]
    + d["Analyzing"] + d["Evaluating"] + d["Creating"]

\* len(range(n)): a non-positive n gives no iteration.
RangeLen(n) == IF n > 0 THEN n ELSE 0

(***************************************************************************)
(* generate_tos                                                            *)
(***************************************************************************)
\* LevelCounts with the excess branch (lines 108-109) left out.
LevelCountsShortfallOnly(t) ==
    LET counts == [level \in LevelSet |->
                      PyRound(BLOOM_DISTRIBUTION[level] * t, WeightDenominator)]
        diff   == t - SumValues(counts)
    IN  IF diff > 0 THEN [counts EXCEPT !["Applying"] = @ + diff] ELSE counts

\* Lines 102-109: the global count of each level, corrected to sum to the total.
LevelCounts(t) ==
    LET counts == [level \in LevelSet |->
                      PyRound(BLOOM_DISTRIBUTION[level] * t, WeightDenominator)]
        diff   == t - SumValues(counts)
    IN  IF diff > 0 THEN [counts EXCEPT !["Applying"] = @ + diff]
        ELSE IF diff < 0 THEN [counts EXCEPT !["Creating"] = @ + diff]
        ELSE counts

\* competencies.index(comp): the 0-based position of the first equal element.
ListIndex(comps, comp) ==
    (CHOOSE j \in 1..Len(comps) :
        /\ comps[j] = comp
        /\ \A k \in 1..(j - 1) : comps[k] # comp) - 1

\* Lines 117-119: the share of the competency at (1-based) position i.
CompItems(comps, i, t) ==
    LET base  == t \div Len(comps)
        extra == IF ListIndex(comps, comps[i]) < t % Len(comps) THEN 1 ELSE 0
    IN  base + extra

\* Line 122: the rounded level shares of one competency, before the correction.
RoundedShares(counts, comp_items, t) ==
    [level \in LevelSet |-> PyRound(counts[level] * comp_items, t)]

\* CompCounts with the shortfall correction (lines 124-125) left out.
CompCountsUncorrected(counts, comp_items, t) ==
    RoundedShares(counts, comp_items, t)

\* Lines 122-125: the level shares of one competency.
CompCounts(counts, comp_items, t) ==
    LET comp_counts == RoundedShares(counts, comp_items, t)
        comp_diff   == comp_items - SumValues(comp_counts)
    IN  IF comp_diff > 0
        THEN [comp_counts EXCEPT !["Applying"] = @ + comp_diff]
        ELSE comp_counts

\* ItemType with "Analyzing" missing from the second list.
ItemTypeAnalyzingEssay(level) ==
    IF level \in {"Remembering", "Understanding"} THEN "Multiple Choice"
    ELSE IF level \in {"Applying"} THEN "Short Answer"
    ELSE "Essay"

\* Lines 130-135.
ItemType(level) ==
    IF level \in {"Remembering", "Understanding"} THEN "Multiple Choice"
    ELSE IF level \in {"Applying", "Analyzing"} THEN "Short Answer"
    ELSE "Essay"

\* Line 137.
PointVal(item_type) ==
    IF item_type = "Multiple Choice" THEN 1
    ELSE IF item_type = "Short Answer" THEN 2 ELSE 5

\* Lines 139-146: one row of the frame.
Row(item_no, level, comp) ==
    [item_no |-> item_no, cognitive_level |-> level, competency |-> comp,
     item_type |-> ItemType(level), point_value |-> PointVal(ItemType(level)),
     remarks |-> ""]

\* Lines 127-147 for one competency: rows of the levels from position li on,
\* numbered from item_no.
RECURSIVE EmitLevels(_, _, _, _)
EmitLevels(li, comp, comp_counts, item_no) ==
    IF li > Len(Levels) THEN <<>>
    ELSE LET n == RangeLen(comp_counts[Levels[li]])
         IN  [k \in 1..n |-> Row(item_no + k - 1, Levels[li], comp)]
             \o EmitLevels(li + 1, comp, comp_counts, item_no + n)

\* Lines 115-147: the rows of the competencies from position i on.
RECURSIVE EmitComps(_, _, _, _, _)
EmitComps(comps, i, t, counts, item_no) ==
    IF i > Len(comps) THEN <<>>
    ELSE LET comp_counts == CompCounts(counts, CompItems(comps, i, t), t)
             rows == EmitLevels(1, comps[i], comp_counts, item_no)
         IN  rows \o EmitComps(comps, i + 1, t, counts, item_no + Len(rows))

\* What generate_tos's loop computed for the competency at position i.
CompLocals(comps, i, t, counts) ==
    LET comp_items == CompItems(comps, i, t)
        rounded    == RoundedShares(counts, comp_items, t)
        comp_counts == CompCounts(counts, comp_items, t)
    IN  [comp_items |-> comp_items,
         rounded |-> rounded,
         comp_diff |-> comp_items - SumValues(rounded),
         comp_counts |-> comp_counts,
         emitted |-> Len(EmitLevels(1, comps[i], comp_counts, 1))]

\* generate_tos(competencies, total_items): the frame it returns, or the
\* exception it raises (line 122 divides by total_items once per competency).
generate_tos(comps, t) ==
    IF Len(comps) > 0 /\ t = 0
    THEN [status |-> "ZeroDivisionError", rows |-> <<>>]
    ELSE [status |-> "ok", rows |-> EmitComps(comps, 1, t, LevelCounts(t), 1)]

\* The locals of a call that returned.
TosLocals(comps, t) ==
    [counts |-> LevelCounts(t),
     comps |-> [i \in 1..Len(comps) |-> CompLocals(comps, i, t, LevelCounts(t))]]

(***************************************************************************)
(* generate_quiz_items                                                     *)
(***************************************************************************)
\* Lines 165-183: the template chosen for an item type; the last branch is a
\* bare else.
Template(item_type) ==
    IF item_type = "Multiple Choice" THEN "MultipleChoiceStem"
    ELSE IF item_type = "Short Answer" THEN "ShortAnswerPrompt"
    ELSE "EssayPrompt"

Answer(item_type) ==
    IF item_type = "Multiple Choice" THEN "CorrectOptionB"
    ELSE IF item_type = "Short Answer" THEN "SampleAnswer"
    ELSE "Rubric5"

\* QuizItem with the points derived from the item type instead of copied
\* from the row.
QuizItemRecomputedPoints(row) ==
    [item_no |-> row.item_no,
     text |-> <<BLOOM_VERBS[row.cognitive_level], Template(row.item_type)>>,
     answer |-> Answer(row.item_type),
     points |-> PointVal(row.item_type)]

\* Lines 154-190: the quiz item of one row.
QuizItem(row) ==
    [item_no |-> row.item_no,
     text |-> <<BLOOM_VERBS[row.cognitive_level], Template(row.item_type)>>,
     answer |-> Answer(row.item_type),
     points |-> row.point_value]

\* generate_quiz_items(tos_df): no branch of it raises for a row whose level
\* is a key of BLOOM_VERBS.
generate_quiz_items(rows) ==
    [status |-> "ok", items |-> [i \in 1..Len(rows) |-> QuizItem(rows[i])]]

(***************************************************************************)
(* The Streamlit script (lines 282-365)                                    *)
(***************************************************************************)
\* Line 329: st.slider(min_value=10, max_value=50, value=30, step=5).
SliderMin == 10
SliderMax == 50
SliderStep == 5
SliderDefault == 30

SliderValues ==
    {v \in SliderMin..SliderMax : (v - SliderMin) % SliderStep = 0}

\* Sizes of the option lists of MELC_DATABASE's entries (lines 35-66): the
\* entry selected at start (Mathematics, Grade 7, Q1) has three options. The
\* entries of two options take the same branches and are left out.
EntrySizes == {3}

\* Line 315: default=options[:2].
DefaultSelected == <<1, 2>>

\* Values a multiselect over n options can hold: its options, each at most
\* once, in the order chosen.
Selections(n) ==
    UNION {{s \in [1..k -> 1..n] : \A i, j \in 1..k : i # j => s[i] # s[j]} :
             k \in 0..n}

\* A line of the text area: <<c>> stands for "c: description", naming the
\* competency c, and <<>> for a line without a colon.
RawLines == {<<>>, <<1>>}
RawTexts == UNION {[1..n -> RawLines] : n \in 0..MaxRawLines}

\* Lines 323-327: the competencies parsed from the text area; lines without
\* a colon are skipped.
ParseRaw(lines) ==
    LET kept == SelectSeq(lines, LAMBDA l : Len(l) > 0)
    IN  [i \in 1..Len(kept) |-> kept[i][1]]

\* Lines 306-327: the list the script builds from the widgets.
FormCompetencies(sample, options, sel, lines) ==
    IF sample /\ options > 0 THEN sel ELSE ParseRaw(lines)

\* Lines 354-361: the metadata stored with a generation. The grade, subject
\* and quarter are kept as the entry they select; the sidebar's texts are
\* copied as typed and are not tracked.
Metadata(options) == [entry |-> options]

\* Lines 352-354: the three assignments to st.session_state.
StoreResults(state, tos, quiz, meta) ==
    [k \in DOMAIN state \cup {"tos_df", "quiz_items", "metadata"} |->
        IF k = "tos_df" THEN tos
        ELSE IF k = "quiz_items" THEN quiz
        ELSE IF k = "metadata" THEN meta
        ELSE state[k]]

\* GenerateHandler without the check of line 341.
GenerateHandlerUnguarded(comps, t, options, state) ==
    LET tos == generate_tos(comps, t)
    IN  IF tos.status # "ok"
        THEN [error |-> FALSE, calls |-> <<"generate_tos">>, state |-> state]
        ELSE [error |-> FALSE,
              calls |-> <<"generate_tos", "generate_quiz_items">>,
              state |-> StoreResults(state, tos.rows,
                                     generate_quiz_items(tos.rows).items,
                                     Metadata(options))]

\* Lines 340-361: the script run in which st.button returned True.
GenerateHandler(comps, t, options, state) ==
    IF Len(comps) = 0
    THEN [error |-> TRUE, calls |-> <<>>, state |-> state]
    ELSE LET tos == generate_tos(comps, t)
         IN  IF tos.status # "ok"
             THEN [error |-> FALSE, calls |-> <<"generate_tos">>, state |-> state]
             ELSE [error |-> FALSE,
                   calls |-> <<"generate_tos", "generate_quiz_items">>,
                   state |-> StoreResults(state, tos.rows,
                                          generate_quiz_items(tos.rows).items,
                                          Metadata(options))]

(***************************************************************************)
(* Inputs                                                                  *)
(***************************************************************************)
\* Competencies are named by numbers; equal numbers are equal dicts.
DistinctLists == {[i \in 1..n |-> i] : n \in 0..MaxComps}
DupLists == UNION {[1..n -> 1..NumDupCodes] : n \in 0..MaxDupLen}
CompetencyLists == DistinctLists \cup DupLists

Totals == (0 - NegTotals)..MaxTotal

RecognizedTypes == {"Multiple Choice", "Short Answer", "Essay"}

\* Rows of a frame built by a caller rather than by generate_tos: a row of
\* any level as generate_tos writes it, or with an item type that is none of
\* the three, or with its point value raised by hand, or both.
FrameRows ==
    UNION {{[cognitive_level |-> level, item_type |-> type, point_value |-> points] :
               type \in {ItemType(level), "True/False"},
               points \in {PointVal(ItemType(level)), PointVal(ItemType(level)) + 1}} :
           level \in LevelSet}

\* A hand-built frame, numbered upwards from 1 or downwards to 1.
NumberedFrame(f, ascending) ==
    [i \in 1..Len(f) |->
        [item_no |-> IF ascending THEN i ELSE Len(f) + 1 - i,
         cognitive_level |-> f[i].cognitive_level,
         competency |-> 1,
         item_type |-> f[i].item_type,
         point_value |-> f[i].point_value,
         remarks |-> ""]]

Frames ==
    {NumberedFrame(f, a) :
        f \in UNION {[1..n -> FrameRows] : n \in 0..MaxFrameRows},
        a \in BOOLEAN}

NoLocals == [counts |-> [level \in LevelSet |-> 0], comps |-> <<>>]

(***************************************************************************)
(* Spec: the core functions called on drawn inputs                         *)
(***************************************************************************)
UIAtRest ==
    /\ use_sample = TRUE
    /\ db_options = 3
    /\ selected = DefaultSelected
    /\ raw = <<>>
    /\ session_state = <<>>
    /\ button = FALSE
    /\ error_shown = FALSE
    /\ core_calls = <<>>

Init ==
    /\ \/ /\ pc = "args"
          /\ competencies \in CompetencyLists
          /\ total_items \in Totals
          /\ tos_df = <<>>
       \/ /\ pc = "frame"
          /\ competencies = <<>>
          /\ total_items = DefaultTotalItems
          /\ tos_df \in Frames
    /\ tos_locals = NoLocals
    /\ quiz_items = <<>>
    /\ raised = ""
    /\ UIAtRest

\* tos_df = generate_tos(competencies, total_items)
CallGenerateTos ==
    /\ pc = "args"
    /\ LET r == generate_tos(competencies, total_items)
       IN  IF r.status = "ok"
           THEN /\ pc' = "tos_returned"
                /\ tos_df' = r.rows
                /\ tos_locals' = TosLocals(competencies, total_items)
                /\ raised' = ""
           ELSE /\ pc' = "tos_raised"
                /\ raised' = r.status
                /\ UNCHANGED <<tos_df, tos_locals>>
    /\ UNCHANGED <<competencies, total_items, quiz_items>>
    /\ UNCHANGED uiVars

\* quiz_items = generate_quiz_items(tos_df)
CallGenerateQuizItems ==
    /\ pc \in {"tos_returned", "frame"}
    /\ LET r == generate_quiz_items(tos_df)
       IN  /\ pc' = IF r.status = "ok" THEN "quiz_returned" ELSE "quiz_raised"
           /\ raised' = IF r.status = "ok" THEN "" ELSE r.status
           /\ quiz_items' = r.items
    /\ UNCHANGED <<competencies, total_items, tos_df, tos_locals>>
    /\ UNCHANGED uiVars

Next == CallGenerateTos \/ CallGenerateQuizItems

Spec == Init /\ [][Next]_vars

(***************************************************************************)
(* SpecUI: the script re-run by every widget change and button press       *)
(***************************************************************************)
InitUI ==
    /\ pc = "ui"
    /\ tos_df = <<>>
    /\ tos_locals = NoLocals
    /\ quiz_items = <<>>
    /\ raised = ""
    /\ UIAtRest
    /\ total_items = SliderDefault
    /\ competencies = FormCompetencies(use_sample, db_options, selected, raw)

\* A run started by a widget change: the button returns False, nothing is
\* generated, st.session_state is kept.
Rerun ==
    /\ button' = FALSE
    /\ error_shown' = FALSE
    /\ core_calls' = <<>>
    /\ competencies' = FormCompetencies(use_sample', db_options', selected', raw')
    /\ UNCHANGED <<session_state, coreVars>>

\* Line 304. A widget the run does not render loses its value and comes back
\* with its default.
ToggleUseSample ==
    /\ use_sample' = ~use_sample
    /\ selected' = DefaultSelected
    /\ raw' = <<>>
    /\ UNCHANGED <<db_options, total_items>>
    /\ Rerun

\* Lines 295-300: another grade, subject or quarter; the multiselect is
\* rebuilt over the new entry's options.
SelectEntry ==
    /\ \E n \in {0} \cup EntrySizes :
          /\ n # db_options
          /\ db_options' = n
    /\ selected' = DefaultSelected
    /\ raw' = <<>>
    /\ UNCHANGED <<use_sample, total_items>>
    /\ Rerun

\* Lines 312-316.
EditMultiselect ==
    /\ use_sample /\ db_options > 0
    /\ \E s \in Selections(db_options) :
          /\ s # selected
          /\ selected' = s
    /\ UNCHANGED <<use_sample, db_options, raw, total_items>>
    /\ Rerun

\* Line 322.
EditRaw ==
    /\ ~(use_sample /\ db_options > 0)
    /\ \E lines \in RawTexts :
          /\ lines # raw
          /\ raw' = lines
    /\ UNCHANGED <<use_sample, db_options, selected, total_items>>
    /\ Rerun

\* Line 329.
MoveSlider ==
    /\ \E v \in SliderValues :
          /\ v # total_items
          /\ total_items' = v
    /\ UNCHANGED <<use_sample, db_options, selected, raw>>
    /\ Rerun

\* Lines 285-287: a text typed into the sidebar.
EditSidebar ==
    /\ UNCHANGED <<use_sample, db_options, selected, raw, total_items>>
    /\ Rerun

\* Lines 340-361: a press of the Generate button.
PressGenerate ==
    /\ LET r == GenerateHandler(competencies, total_items, db_options,
                                session_state)
       IN  /\ error_shown' = r.error
           /\ core_calls' = r.calls
           /\ session_state' = r.state
    /\ button' = TRUE
    /\ UNCHANGED <<use_sample, db_options, selected, raw, total_items,
                   competencies, coreVars>>

NextUI ==
    \/ ToggleUseSample
    \/ SelectEntry
    \/ EditMultiselect
    \/ EditRaw
    \/ MoveSlider
    \/ EditSidebar
    \/ PressGenerate

SpecUI == InitUI /\ [][NextUI]_vars

(***************************************************************************)
(* Properties of generate_tos (checked under Spec)                         *)
(***************************************************************************)
TosCalled == pc \in {"tos_returned", "tos_raised"}

ValidInput == Len(competencies) > 0 /\ total_items >= 1

ItemNumbers(rows) == [i \in 1..Len(rows) |-> rows[i].item_no]

\* C1: for every non-empty competency list and every total_items >= 1,
\* generate_tos returns exactly total_items rows.
C1_ExactlyTotalRows ==
    (pc = "tos_returned" /\ ValidInput) => Len(tos_df) = total_items

\* C2: for every valid input the "Item No." values of the returned rows, in
\* output order, are exactly 1, 2, ..., total_items.
C2_ItemNumbersOneToTotal ==
    (pc = "tos_returned" /\ ValidInput)
        => ItemNumbers(tos_df) = [i \in 1..total_items |-> i]

\* C3: generate_tos fails with InvalidInput, returning no frame, whenever
\* the competency list is empty or total_items < 1.
C3_InvalidInputRejected ==
    (TosCalled /\ (Len(competencies) = 0 \/ total_items < 1))
        => (pc = "tos_raised" /\ raised = "InvalidInput")

\* C4: in every row generate_tos returns, the item type and point value are
\* fixed by the cognitive level: Remembering and Understanding give Multiple
\* Choice worth 1, Applying and Analyzing give Short Answer worth 2,
\* Evaluating and Creating give Essay worth 5.
C4_TypeAndPointsByLevel ==
    pc = "tos_returned" =>
        \A i \in 1..Len(tos_df) :
            LET row == tos_df[i]
            IN  /\ row.cognitive_level \in {"Remembering", "Understanding"}
                    => (row.item_type = "Multiple Choice" /\ row.point_value = 1)
                /\ row.cognitive_level \in {"Applying", "Analyzing"}
                    => (row.item_type = "Short Answer" /\ row.point_value = 2)
                /\ row.cognitive_level \in {"Evaluating", "Creating"}
                    => (row.item_type = "Essay" /\ row.point_value = 5)

\* A returned frame with rows of all six levels.
C4_Witness ==
    /\ pc = "tos_returned"
    /\ \A level \in LevelSet :
          \E i \in 1..Len(tos_df) : tos_df[i].cognitive_level = level

\* C7: after step 1 of generate_tos (round each weight times the total, add
\* a positive difference to Applying and a negative one to Creating) the six
\* level counts sum to exactly total_items, for every total_items >= 1.
C7_LevelCountsSumToTotal ==
    (pc = "tos_returned" /\ total_items >= 1)
        => SumValues(tos_locals.counts) = total_items

UncorrectedCounts(t) ==
    [level \in LevelSet |->
        PyRound(BLOOM_DISTRIBUTION[level] * t, WeightDenominator)]

\* A call whose rounded counts exceeded the total, so that Creating was cut.
C7_Witness ==
    /\ pc = "tos_returned"
    /\ total_items >= 1
    /\ SumValues(UncorrectedCounts(total_items)) > total_items
    /\ tos_locals.counts["Creating"]
         < UncorrectedCounts(total_items)["Creating"]

\* C8: for any non-empty list of N competencies, repeats included, the
\* competency at position i (from 0) gets total_items div N items plus one
\* exactly when i < total_items mod N, so the shares sum to total_items.
C8_SharesByPosition ==
    (pc = "tos_returned" /\ ValidInput) =>
        LET N == Len(competencies)
        IN  \A i \in 1..N :
                tos_locals.comps[i].comp_items
                    = (total_items \div N)
                      + (IF i - 1 < total_items % N THEN 1 ELSE 0)

RECURSIVE SumEmitted(_, _)
SumEmitted(locals, n) ==
    IF n = 0 THEN 0 ELSE locals[n].emitted + SumEmitted(locals, n - 1)

\* C9: for each competency with share comp_items the rows emitted for it are
\* never fewer than comp_items: when the rounded level shares sum to less,
\* the shortfall is added to Applying and exactly comp_items rows are
\* emitted; when they sum to more, nothing is corrected and more than
\* comp_items rows are emitted.
C9_NeverFewerThanShare ==
    (pc = "tos_returned" /\ ValidInput) =>
        /\ \A i \in 1..Len(competencies) :
              LET c == tos_locals.comps[i]
                  sameComp == {j \in 1..Len(competencies) :
                                  competencies[j] = competencies[i]}
                  rowsOf == {k \in 1..Len(tos_df) :
                                tos_df[k].competency = competencies[i]}
              IN  /\ c.emitted >= c.comp_items
                  /\ c.comp_diff = c.comp_items - SumValues(c.rounded)
                  /\ c.comp_diff > 0 =>
                        /\ c.emitted = c.comp_items
                        /\ c.comp_counts
                             = [c.rounded EXCEPT !["Applying"] = @ + c.comp_diff]
                  /\ c.comp_diff = 0 =>
                        (c.emitted = c.comp_items /\ c.comp_counts = c.rounded)
                  /\ c.comp_diff < 0 =>
                        (c.emitted > c.comp_items /\ c.comp_counts = c.rounded)
                  /\ sameComp = {i} => Cardinality(rowsOf) = c.emitted
        /\ Len(tos_df) = SumEmitted(tos_locals.comps, Len(competencies))

\* A call in which one competency fell short and another ran over.
C9_Witness ==
    /\ pc = "tos_returned"
    /\ ValidInput
    /\ \E i, j \in 1..Len(competencies) :
          /\ tos_locals.comps[i].comp_diff > 0
          /\ tos_locals.comps[j].comp_diff < 0

(***************************************************************************)
(* Properties of generate_quiz_items (checked under Spec)                  *)
(***************************************************************************)
QuizCalled == pc \in {"quiz_returned", "quiz_raised"}

\* C5: generate_quiz_items returns one quiz item per input row, in the same
\* order, the i-th item carrying the i-th row's item number and point value.
C5_OneItemPerRow ==
    pc = "quiz_returned" =>
        /\ Len(quiz_items) = Len(tos_df)
        /\ \A i \in 1..Len(tos_df) :
              /\ quiz_items[i].item_no = tos_df[i].item_no
              /\ quiz_items[i].points = tos_df[i].point_value

\* Quiz items made of a frame that generate_tos returned for a valid input.
C5_Witness ==
    /\ pc = "quiz_returned"
    /\ ValidInput
    /\ Len(tos_df) >= total_items
    /\ Len(quiz_items) >= total_items

\* C6: generate_quiz_items fails with InvalidInput when a row's item type is
\* none of Multiple Choice, Short Answer and Essay, and makes no quiz item
\* for such a row.
C6_UnknownTypeRejected ==
    (QuizCalled /\ \E i \in 1..Len(tos_df) :
                      tos_df[i].item_type \notin RecognizedTypes)
        => (pc = "quiz_raised" /\ raised = "InvalidInput")

(***************************************************************************)
(* Properties of the Generate handler (checked under SpecUI)               *)
(***************************************************************************)
SessionKeys == {"tos_df", "quiz_items", "metadata"}

\* Line 364: the results are displayed when "tos_df" is a key of the session.
ResultsDisplayed == "tos_df" \in DOMAIN session_state

\* The three results as a press with the current form stores them.
Generated ==
    LET tos == generate_tos(competencies, total_items).rows
    IN  [tos_df |-> tos,
         quiz_items |-> generate_quiz_items(tos).items,
         metadata |-> Metadata(db_options)]

\* C10: a press of Generate while the competency list is empty shows the
\* validation error, calls neither core function and leaves the stored
\* tos_df, quiz_items and metadata as they were; the three are only ever
\* written together, by a press made with a non-empty list.
C10_EmptyPressKeepsSession ==
    [][/\ (button' /\ Len(competencies') = 0)
            => /\ error_shown'
               /\ core_calls' = <<>>
               /\ session_state' = session_state
               /\ ResultsDisplayed' = ResultsDisplayed
       /\ session_state' # session_state
            => /\ button'
               /\ Len(competencies') > 0
               /\ ~error_shown'
               /\ core_calls' = <<"generate_tos", "generate_quiz_items">>
               /\ DOMAIN session_state' = SessionKeys
               /\ <<competencies', total_items', db_options'>>
                     = <<competencies, total_items, db_options>>
               /\ session_state' = Generated
       /\ DOMAIN session_state' \in {{}, SessionKeys}]_vars

\* A press with an empty list made after a successful generation: the error
\* is shown and the earlier results are still stored.
C10_Witness ==
    /\ button
    /\ Len(competencies) = 0
    /\ error_shown
    /\ core_calls = <<>>
    /\ ResultsDisplayed
    /\ DOMAIN session_state = SessionKeys
    /\ Len(session_state["tos_df"]) > 0

====
